---- MODULE Spec2Model ----
(***************************************************************************)
(* Model of plugins/homekit/src/camera-mixin.ts (class CameraMixin):       *)
(* getMixinSettings derives the list of setting descriptors from the       *)
(* persisted key/value storage, the device's interfaces and two probes;    *)
(* putMixinSetting normalises a value and writes it to the storage.        *)
(*                                                                         *)
(* JavaScript values are records with a kind tag, so that a string "true"  *)
(* and the boolean true are different values, as they are in the program.  *)
(* The grave accent (U+0060) that marks a deferred-evaluation string       *)
(* cannot be written inside a TLA+ string; it is spelt "U+0060" here.      *)
(***************************************************************************)
EXTENDS Integers, Sequences, FiniteSets

VARIABLES
    interfaces,   \* this.interfaces: the capability flags of the device
    storage,      \* this.storage: function from the stored keys to strings
    encoderArgs,  \* the encoder preset catalog returned by getH264EncoderArgs()
    settings,     \* result of the last getMixinSettings() since the last write, <<>> if none
    calls,        \* collaborator calls made by the last putMixinSetting(), in order
    put,          \* arguments and outcome of the last putMixinSetting()
    prev,         \* the storage as it was when the last putMixinSetting() was entered
    probed,       \* outcomes of the two probes in the last getMixinSettings() since the last write
    writes        \* number of putMixinSetting() invocations counted against MaxWrites

vars == <<interfaces, storage, encoderArgs, settings, calls, put, prev, probed, writes>>

----------------------------------------------------------------------------
(* Bounds *)

MaxWrites == 2
MaxSchemaWrites == 1

----------------------------------------------------------------------------
(* JavaScript values *)

Null == [kind |-> "null", s |-> "", b |-> FALSE, n |-> 0, l |-> <<>>]
Undefined == [kind |-> "undefined", s |-> "", b |-> FALSE, n |-> 0, l |-> <<>>]
Str(s) == [kind |-> "string", s |-> s, b |-> FALSE, n |-> 0, l |-> <<>>]
Bool(b) == [kind |-> "boolean", s |-> "", b |-> b, n |-> 0, l |-> <<>>]
Num(n) == [kind |-> "number", s |-> "", b |-> FALSE, n |-> n, l |-> <<>>]
List(l) == [kind |-> "array", s |-> "", b |-> FALSE, n |-> 0, l |-> l]

\* JavaScript truthiness, as used by ||, ! and if
Truthy(v) ==
    CASE v.kind = "string" -> v.s # ""
      [] v.kind = "boolean" -> v.b
      [] v.kind = "number" -> v.n # 0
      [] v.kind = "array" -> TRUE
      [] OTHER -> FALSE

\* a || b
Or(a, b) == IF Truthy(a) THEN a ELSE b

RECURSIVE Join(_, _)
\* Array.prototype.join
Join(seq, sep) ==
    IF seq = <<>> THEN ""
    ELSE IF Len(seq) = 1 THEN seq[1]
    ELSE seq[1] \o sep \o Join(Tail(seq), sep)

Digits == <<"0", "1", "2", "3", "4", "5", "6", "7", "8", "9">>

RECURSIVE NumToString(_)
\* Number.prototype.toString for a natural number
NumToString(n) ==
    IF n < 10 THEN Digits[n + 1]
    ELSE NumToString(n \div 10) \o Digits[(n % 10) + 1]

\* value.toString()
toString(v) ==
    CASE v.kind = "string" -> v.s
      [] v.kind = "boolean" -> (IF v.b THEN "true" ELSE "false")
      [] v.kind = "number" -> NumToString(v.n)
      [] v.kind = "array" -> Join(v.l, ",")
      [] OTHER -> "undefined"

Quote(s) == "\"" \o s \o "\""

\* JSON.stringify
JSONStringify(v) ==
    CASE v.kind = "string" -> Quote(v.s)
      [] v.kind = "boolean" -> (IF v.b THEN "true" ELSE "false")
      [] v.kind = "number" -> NumToString(v.n)
      [] v.kind = "array" -> "[" \o Join([i \in 1..Len(v.l) |-> Quote(v.l[i])], ",") \o "]"
      [] v.kind = "null" -> "null"
      [] OTHER -> "undefined"

----------------------------------------------------------------------------
(* The storage: this.storage *)

\* storage.getItem(key): the stored string, or null
getItem(st, key) == IF key \in DOMAIN st THEN Str(st[key]) ELSE Null

\* storage.setItem(key, value)
setItem(st, key, value) ==
    [k \in (DOMAIN st) \cup {key} |-> IF k = key THEN value ELSE st[k]]

\* storage.removeItem(key)
removeItem(st, key) == [k \in (DOMAIN st) \ {key} |-> st[k]]

EmptyStorage == [k \in {} |-> ""]

----------------------------------------------------------------------------
(* Keys and interfaces *)

\* ScryptedInterface members tested by this.interfaces.includes(...)
Interfaces == {"MotionSensor", "VideoCameraConfiguration", "AudioSensor", "ObjectDetector", "OnOff"}

\* keys of this.storageSettings.settings: the settings owned by HomekitMixin
StorageSettingsKeys == {"standalone"}

\* keys whose write alerts a reload
ReloadKeys == {"detectAudio", "linkedMotionSensor", "objectDetectionContactSensors"}

\* keys of the two flags the hub streaming mode is normalised into
ModeKeys == {"hubStreamingMode", "dynamicBitrate", "transcodeStreamingHub"}

ArgsKeys == {"videoDecoderArguments", "h264EncoderArguments"}

BooleanKeys == {"needsExtraData", "transcodeRecording", "transcodeStreaming", "transcodeStreamingHub",
                "detectAudio", "statusIndicator", "dynamicBitrate"}

ChannelKeys == {"streamingChannel", "streamingChannelHub", "recordingChannel"}

Keys == BooleanKeys \cup ChannelKeys \cup ModeKeys \cup ArgsKeys \cup StorageSettingsKeys
        \cup {"linkedMotionSensor", "transcodingNotices", "objectDetectionContactSensors",
              "objectDetectionContactSensorTimeout"}

----------------------------------------------------------------------------
(* The argument preset catalog: common/src/ffmpeg-hardware-acceleration *)

Backtick == "U+0060"

\* Object.keys(getH264DecoderArgs()), in insertion order
DecoderPresetNames == <<"VideoToolbox", "QuickSync">>

\* getH264DecoderArgs(): preset name -> argument tokens
getH264DecoderArgs ==
    [name \in {"VideoToolbox", "QuickSync"} |->
        IF name = "VideoToolbox" THEN <<"-hwaccel", "videotoolbox">>
        ELSE <<"-hwaccel", "qsv", "-c:v", "h264_qsv">>]

\* Object.keys(getH264EncoderArgs()), in insertion order
EncoderPresetNames == <<"VideoToolbox", "QuickSync">>

\* the encoder catalog as built at process start: preset name -> argument tokens
InitialEncoderArgs ==
    [name \in {"VideoToolbox", "QuickSync"} |->
        IF name = "VideoToolbox" THEN <<"-c:v", "h264_videotoolbox">>
        ELSE <<"-c:v", "h264_qsv">>]

\* getH264EncoderArgs(): the catalog object, built once per process; the
\* caller receives the arrays of the catalog itself, not copies.
getH264EncoderArgs == encoderArgs

\* extraEncoderArgs
extraEncoderArgs ==
    <<"-b:v", "${request.video.max_bit_rate * 2}k",
      "-vf", "scale=${request.video.width}:${request.video.height}",
      "-r", "${request.video.fps}">>

----------------------------------------------------------------------------
(* putMixinSetting(key, value) *)

\* if (key === 'videoDecoderArguments') value = decoderArgs[value.toString()]?.join(' ') || value
DecoderValue(key, value) ==
    IF key = "videoDecoderArguments" /\ toString(value) \in DOMAIN getH264DecoderArgs
    THEN Or(Str(Join(getH264DecoderArgs[toString(value)], " ")), value)
    ELSE value

\* const args = encoderArgs[value.toString()] is defined
EncoderPresetHit(key, value, catalog) ==
    key = "h264EncoderArguments" /\ toString(value) \in DOMAIN catalog

\* args.push(...extraEncoderArgs): args is the catalog's own array
PushExtraEncoderArgs(args) == args \o extraEncoderArgs

\* the catalog after the h264EncoderArguments branch
EncoderArgsAfter(key, value, catalog) ==
    IF EncoderPresetHit(key, value, catalog)
    THEN [catalog EXCEPT ![toString(value)] = PushExtraEncoderArgs(catalog[toString(value)])]
    ELSE catalog

\* value = substitute ? (backtick substitute backtick) : value
Substitute(substitute, value) ==
    IF substitute # "" THEN Str(Backtick \o substitute \o Backtick) ELSE value

\* EncoderValue that wraps a value that is no preset name as well
EncoderValue_WrapsRaw(key, value, catalog) ==
    IF EncoderPresetHit(key, value, catalog)
    THEN Substitute(Join(EncoderArgsAfter(key, value, catalog)[toString(value)], " "), value)
    ELSE IF key = "h264EncoderArguments" THEN Substitute(toString(value), value)
    ELSE value

\* the value after the h264EncoderArguments branch
EncoderValue(key, value, catalog) ==
    IF EncoderPresetHit(key, value, catalog)
    THEN Substitute(Join(EncoderArgsAfter(key, value, catalog)[toString(value)], " "), value)
    ELSE value

Call(op, key, value) == [op |-> op, key |-> key, value |-> value]

\* HubStreamingModeCalls whose 'Dynamic Bitrate' branch forgets removeItem('transcodeStreamingHub')
HubStreamingModeCalls_DynamicKeepsTranscode(key, value) ==
    IF key # "hubStreamingMode" THEN <<>>
    ELSE IF value = Str("Dynamic Bitrate")
         THEN <<Call("setItem", "dynamicBitrate", "true")>>
    ELSE IF value = Str("transcodeStreamingHub")
         THEN <<Call("setItem", "transcodeStreamingHub", "true"),
                Call("removeItem", "dynamicBitrate", "")>>
    ELSE <<Call("removeItem", "dynamicBitrate", ""),
           Call("removeItem", "transcodeStreamingHub", "")>>

\* HubStreamingModeCalls whose last branch forgets removeItem('transcodeStreamingHub')
HubStreamingModeCalls_DisabledKeepsTranscode(key, value) ==
    IF key # "hubStreamingMode" THEN <<>>
    ELSE IF value = Str("Dynamic Bitrate")
         THEN <<Call("setItem", "dynamicBitrate", "true"),
                Call("removeItem", "transcodeStreamingHub", "")>>
    ELSE IF value = Str("transcodeStreamingHub")
         THEN <<Call("setItem", "transcodeStreamingHub", "true"),
                Call("removeItem", "dynamicBitrate", "")>>
    ELSE <<Call("removeItem", "dynamicBitrate", "")>>

\* HubStreamingModeCalls whose 'transcodeStreamingHub' branch forgets removeItem('dynamicBitrate')
HubStreamingModeCalls_TranscodeKeepsDynamic(key, value) ==
    IF key # "hubStreamingMode" THEN <<>>
    ELSE IF value = Str("Dynamic Bitrate")
         THEN <<Call("setItem", "dynamicBitrate", "true"),
                Call("removeItem", "transcodeStreamingHub", "")>>
    ELSE IF value = Str("transcodeStreamingHub")
         THEN <<Call("setItem", "transcodeStreamingHub", "true")>>
    ELSE <<Call("removeItem", "dynamicBitrate", ""),
           Call("removeItem", "transcodeStreamingHub", "")>>

\* HubStreamingModeCalls that also clears dynamicBitrate on a direct write of
\* the transcodeStreamingHub flag
HubStreamingModeCalls_AlsoForFlag(key, value) ==
    IF key = "transcodeStreamingHub" THEN <<Call("removeItem", "dynamicBitrate", "")>>
    ELSE IF key # "hubStreamingMode" THEN <<>>
    ELSE IF value = Str("Dynamic Bitrate")
         THEN <<Call("setItem", "dynamicBitrate", "true"),
                Call("removeItem", "transcodeStreamingHub", "")>>
    ELSE IF value = Str("transcodeStreamingHub")
         THEN <<Call("setItem", "transcodeStreamingHub", "true"),
                Call("removeItem", "dynamicBitrate", "")>>
    ELSE <<Call("removeItem", "dynamicBitrate", ""),
           Call("removeItem", "transcodeStreamingHub", "")>>

\* if (key === 'hubStreamingMode') { ... }: the storage calls that normalise the mode
HubStreamingModeCalls(key, value) ==
    IF key # "hubStreamingMode" THEN <<>>
    ELSE IF value = Str("Dynamic Bitrate")
         THEN <<Call("setItem", "dynamicBitrate", "true"),
                Call("removeItem", "transcodeStreamingHub", "")>>
    ELSE IF value = Str("transcodeStreamingHub")
         THEN <<Call("setItem", "transcodeStreamingHub", "true"),
                Call("removeItem", "dynamicBitrate", "")>>
    ELSE <<Call("removeItem", "dynamicBitrate", ""),
           Call("removeItem", "transcodeStreamingHub", "")>>

\* SetItemCall that writes value.toString() for every key
SetItemCall_NeverStringifies(key, value) == <<Call("setItem", key, toString(value))>>

\* SetItemCall that writes JSON.stringify(value) for every key
SetItemCall_AlwaysStringifies(key, value) == <<Call("setItem", key, JSONStringify(value))>>

\* the write of the key itself
SetItemCall(key, value) ==
    IF key = "objectDetectionContactSensors"
    THEN <<Call("setItem", key, JSONStringify(value))>>
    ELSE <<Call("setItem", key, toString(value))>>

\* AlertReloadCalls that leaves linkedMotionSensor out of the test
AlertReloadCalls_MissesLinkedMotionSensor(key) ==
    IF key \in {"detectAudio", "objectDetectionContactSensors"}
    THEN <<Call("alertReload", "", "")>> ELSE <<>>

\* if (key === 'detectAudio' || ...) super.alertReload()
AlertReloadCalls(key) ==
    IF key \in ReloadKeys THEN <<Call("alertReload", "", "")>> ELSE <<>>

\* deviceManager.onMixinEvent(this.id, this.mixinProviderNativeId, ScryptedInterface.Settings, undefined)
OnMixinEventCall == <<Call("onMixinEvent", "Settings", "")>>

\* the value that is written: after the decoder and the encoder branches
NormalizedValue(key, value, catalog) ==
    EncoderValue(key, DecoderValue(key, value), catalog)

\* every collaborator call of one putMixinSetting(key, value), in program order
PutCalls(key, value, catalog) ==
    IF key \in StorageSettingsKeys
    THEN <<Call("super.putMixinSetting", key, toString(value))>>
    ELSE LET v == NormalizedValue(key, value, catalog) IN
         HubStreamingModeCalls(key, v) \o SetItemCall(key, v)
            \o AlertReloadCalls(key) \o OnMixinEventCall

IsStoreCall(c) == c.op \in {"setItem", "removeItem"}

RECURSIVE ApplyCalls(_, _)
\* the storage after the calls have been made on it, first call first
ApplyCalls(st, cs) ==
    IF cs = <<>> THEN st
    ELSE LET c == Head(cs)
             st1 == CASE c.op = "setItem" -> setItem(st, c.key, c.value)
                      [] c.op = "removeItem" -> removeItem(st, c.key)
                      [] OTHER -> st
         IN ApplyCalls(st1, Tail(cs))

\* number of store calls in a call sequence
NumStoreCalls(cs) == Cardinality({i \in 1..Len(cs) : IsStoreCall(cs[i])})

----------------------------------------------------------------------------
(* getMixinSettings() *)

\* this.id
DeviceId == "camera"

defaultObjectDetectionContactSensorTimeout == 60

\* a Setting: the fields of the descriptor the properties are about
Setting(key, type, value, choices) ==
    [key |-> key, type |-> type, value |-> value, choices |-> choices]

\* outcomes of await realDevice.getVideoStreamOptions(): it throws, it returns
\* undefined, or it returns the media stream options (their names)
VideoStreamOptions ==
    {[status |-> "throws", names |-> <<>>], [status |-> "undefined", names |-> <<>>],
     [status |-> "ok", names |-> <<>>], [status |-> "ok", names |-> <<"main">>],
     [status |-> "ok", names |-> <<"main", "sub">>]}

\* outcomes of await realDevice.getObjectTypes(): it throws, it returns nothing
\* (or no classes), or it returns the classes
ObjectTypes ==
    {[status |-> "throws", classes |-> <<>>], [status |-> "undefined", classes |-> <<>>],
     [status |-> "ok", classes |-> <<>>], [status |-> "ok", classes |-> <<"motion">>],
     [status |-> "ok", classes |-> <<"motion", "person", "car">>]}

\* Msos whose initial value, which a throw leaves in place, is a default pair of channels
Msos_DefaultChannels(vso) ==
    IF vso.status = "throws" THEN [status |-> "ok", names |-> <<"main", "sub">>] ELSE vso

\* msos after the try/catch: the catch leaves the initial empty array
Msos(vso) == IF vso.status = "throws" THEN [status |-> "ok", names |-> <<>>] ELSE vso

\* MultiStream that tests msos?.length > 0
MultiStream_AtLeastOne(msos) == msos.status = "ok" /\ Len(msos.names) > 0

\* msos?.length > 1
MultiStream(msos) == msos.status = "ok" /\ Len(msos.names) > 1

\* (this.storage.getItem(key) === 'true')
IsTrue(st, key) == getItem(st, key) = Str("true")

\* (this.storage.getItem(key) === 'true').toString()
TrueString(st, key) == Str(toString(Bool(IsTrue(st, key))))

\* this.storage.getItem('linkedMotionSensor') || this.interfaces.includes(MotionSensor)
hasMotionSensor(st, ifaces) ==
    Truthy(Or(getItem(st, "linkedMotionSensor"), Bool("MotionSensor" \in ifaces)))

\* showTranscodeArgs as it stands at the test on line 154
showTranscodeArgs(st, ifaces) ==
    \/ IsTrue(st, "transcodeStreaming")
    \/ IsTrue(st, "transcodeStreamingHub")
    \/ (hasMotionSensor(st, ifaces) /\ IsTrue(st, "transcodeRecording"))

\* HubStreamingModeValue that never looks at a stored hubStreamingMode
HubStreamingModeValue_IgnoresStored(st) ==
    IF IsTrue(st, "dynamicBitrate") THEN Str("Dynamic Bitrate")
    ELSE IF IsTrue(st, "transcodeStreamingHub") THEN Str("Transcode")
    ELSE Str("Disabled")

\* HubStreamingModeValue that tests transcodeStreamingHub before dynamicBitrate
HubStreamingModeValue_PrefersTranscode(st) ==
    LET stored == getItem(st, "hubStreamingMode")
        value == IF ~Truthy(stored)
                 THEN IF IsTrue(st, "transcodeStreamingHub") THEN Str("Transcode")
                      ELSE IF IsTrue(st, "dynamicBitrate") THEN Str("Dynamic Bitrate")
                      ELSE stored
                 ELSE stored
    IN Or(value, Str("Disabled"))

\* the value of the hubStreamingMode setting
HubStreamingModeValue(st) ==
    LET stored == getItem(st, "hubStreamingMode")
        value == IF ~Truthy(stored)
                 THEN IF IsTrue(st, "dynamicBitrate") THEN Str("Dynamic Bitrate")
                      ELSE IF IsTrue(st, "transcodeStreamingHub") THEN Str("Transcode")
                      ELSE stored
                 ELSE stored
    IN Or(value, Str("Disabled"))

HubStreamingModeChoices == <<"Disabled", "Transcode", "Dynamic Bitrate">>

RECURSIVE Filter(_, _)
\* Array.prototype.filter(c => c !== x)
Filter(seq, x) ==
    IF seq = <<>> THEN <<>>
    ELSE IF Head(seq) = x THEN Filter(Tail(seq), x)
    ELSE <<Head(seq)>> \o Filter(Tail(seq), x)

\* lists of object classes a write of objectDetectionContactSensors may carry
ObjectClassLists == {<<>>, <<"person">>, <<"person", "car">>}

\* the JavaScript values whose JSON text the model can hold
JSONValues == {List(l) : l \in ObjectClassLists} \cup {Bool(TRUE), Bool(FALSE), Null}

\* JSON.parse(text): the value, or "throws" for a text that is no JSON text of the model
JSONParse(text) ==
    IF \E v \in JSONValues : JSONStringify(v) = text
    THEN [throws |-> FALSE, value |-> CHOOSE v \in JSONValues : JSONStringify(v) = text]
    ELSE [throws |-> TRUE, value |-> Undefined]

\* ContactSensorsValue without the inner try/catch: a text that cannot be
\* parsed and spread leaves the setting without a value
ContactSensorsValue_NoCatch(st) ==
    LET item == getItem(st, "objectDetectionContactSensors")
        parsed == JSONParse(IF item.kind = "null" THEN "null" ELSE item.s)
    IN IF ~parsed.throws /\ parsed.value.kind = "array"
       THEN List(parsed.value.l) ELSE Undefined

\* const value = []; try { value.push(...JSON.parse(getItem(...))) } catch (e) { }
\* JSON.parse(null) is null, and spreading a value that is not iterable throws
ContactSensorsValue(st) ==
    LET item == getItem(st, "objectDetectionContactSensors")
        parsed == JSONParse(IF item.kind = "null" THEN "null" ELSE item.s)
    IN IF ~parsed.throws /\ parsed.value.kind = "array"
       THEN List(parsed.value.l) ELSE List(<<>>)

\* super.getMixinSettings(): the settings of HomekitMixin, an opaque tail
SuperMixinSettings == <<Setting("standalone", "boolean", Undefined, <<>>)>>

\* RemoteStreamingSettings that pushes the boolean toggle whatever the interfaces
RemoteStreamingSettings_AlwaysToggle(st, ifaces) ==
    (IF "VideoCameraConfiguration" \in ifaces
     THEN <<Setting("hubStreamingMode", "", HubStreamingModeValue(st), HubStreamingModeChoices)>>
     ELSE <<>>)
    \o <<Setting("transcodeStreamingHub", "boolean", TrueString(st, "transcodeStreamingHub"), <<>>)>>

\* the setting of remote streaming: the mode selector with native stream
\* configuration, the boolean toggle without
RemoteStreamingSettings(st, ifaces) ==
    IF "VideoCameraConfiguration" \in ifaces
    THEN <<Setting("hubStreamingMode", "", HubStreamingModeValue(st), HubStreamingModeChoices)>>
    ELSE <<Setting("transcodeStreamingHub", "boolean", TrueString(st, "transcodeStreamingHub"), <<>>)>>

\* the settings array built by getMixinSettings(), in the order of the pushes
GetMixinSettings(st, ifaces, vso, types) ==
    LET msos == Msos(vso)
        channel(key) == Setting(key, "", Or(getItem(st, key), Str(msos.names[1])), msos.names)
        classes == Filter(types.classes, "motion")
    IN  (IF MultiStream(msos)
         THEN <<channel("streamingChannel"), channel("streamingChannelHub")>> ELSE <<>>)
     \o (IF hasMotionSensor(st, ifaces) /\ MultiStream(msos)
         THEN <<channel("recordingChannel")>> ELSE <<>>)
     \o <<Setting("linkedMotionSensor", "device",
                  Or(getItem(st, "linkedMotionSensor"), Str(DeviceId)), <<>>)>>
     \o <<Setting("transcodingNotices", "", Str("WARNING"), <<>>)>>
     \o <<Setting("needsExtraData", "boolean", TrueString(st, "needsExtraData"), <<>>)>>
     \o (IF hasMotionSensor(st, ifaces)
         THEN <<Setting("transcodeRecording", "boolean", TrueString(st, "transcodeRecording"), <<>>)>>
         ELSE <<>>)
     \o <<Setting("transcodeStreaming", "boolean", TrueString(st, "transcodeStreaming"), <<>>)>>
     \o RemoteStreamingSettings(st, ifaces)
     \o (IF showTranscodeArgs(st, ifaces)
         THEN <<Setting("videoDecoderArguments", "", getItem(st, "videoDecoderArguments"),
                        DecoderPresetNames),
                Setting("h264EncoderArguments", "", getItem(st, "h264EncoderArguments"),
                        EncoderPresetNames)>>
         ELSE <<>>)
     \o (IF "AudioSensor" \in ifaces
         THEN <<Setting("detectAudio", "boolean", TrueString(st, "detectAudio"), <<>>)>>
         ELSE <<>>)
     \o (IF "ObjectDetector" \in ifaces /\ types.status = "ok" /\ classes # <<>>
         THEN <<Setting("objectDetectionContactSensors", "string", ContactSensorsValue(st), classes),
                Setting("objectDetectionContactSensorTimeout", "number",
                        Or(getItem(st, "objectDetectionContactSensorTimeout"),
                           Num(defaultObjectDetectionContactSensorTimeout)), <<>>)>>
         ELSE <<>>)
     \o (IF "OnOff" \in ifaces
         THEN <<Setting("statusIndicator", "boolean", Bool(IsTrue(st, "statusIndicator")), <<>>)>>
         ELSE <<>>)
     \o SuperMixinSettings

----------------------------------------------------------------------------
(* Inputs *)

\* the values a caller passes for a key: the valid values of its descriptor,
\* for hubStreamingMode also strings that are not among the choices, and
\* for objectDetectionContactSensors also undefined (JSON.stringify then
\* yields undefined, which the string-valued storage holds as "undefined")
ValuesFor(key) ==
    CASE key \in BooleanKeys -> {Bool(TRUE), Bool(FALSE)}
      [] key \in ChannelKeys -> {Str("main"), Str("sub")}
      [] key = "hubStreamingMode" ->
            {Str("Disabled"), Str("Transcode"), Str("Dynamic Bitrate"),
             Str("transcodeStreamingHub"), Str("")}
      [] key = "videoDecoderArguments" ->
            {Str("VideoToolbox"), Str("QuickSync"), Str("-hwaccel auto"), Str("")}
      [] key = "h264EncoderArguments" ->
            {Str("VideoToolbox"), Str("QuickSync"), Str("-vcodec copy"), Str("")}
      [] key = "linkedMotionSensor" -> {Str("sensor"), Str("")}
      [] key = "transcodingNotices" -> {Str("WARNING")}
      [] key = "objectDetectionContactSensors" -> {List(l) : l \in ObjectClassLists} \cup {Undefined}
      [] key = "objectDetectionContactSensorTimeout" -> {Num(30), Str("30")}
      [] OTHER -> {Bool(TRUE)}

----------------------------------------------------------------------------
(* Actions *)

NoPut == [key |-> "", value |-> Null, status |-> "none"]

\* no getMixinSettings() since the last write
NoProbe == [vso |-> [status |-> "none", names |-> <<>>], types |-> [status |-> "none", classes |-> <<>>]]

\* putMixinSetting(key, value), run to completion
PutMixinSetting(key, value) ==
    /\ calls' = PutCalls(key, value, getH264EncoderArgs)
    /\ storage' = ApplyCalls(storage, calls')
    /\ encoderArgs' = IF key \in StorageSettingsKeys THEN encoderArgs
                      ELSE EncoderArgsAfter(key, value, getH264EncoderArgs)
    /\ put' = [key |-> key, value |-> value, status |-> "done"]
    /\ prev' = storage
    /\ settings' = <<>>
    /\ probed' = NoProbe
    /\ UNCHANGED interfaces

\* putMixinSetting(key, value) cut short by a crash after n of its store calls
\* and before the next one; the restarted process builds the catalog anew
PutMixinSettingInterrupted(key, value, n) ==
    /\ key \notin StorageSettingsKeys
    /\ LET cs == PutCalls(key, value, getH264EncoderArgs) IN
        /\ n \in 1..(NumStoreCalls(cs) - 1)
        /\ calls' = SubSeq(cs, 1, n)
    /\ storage' = ApplyCalls(storage, calls')
    /\ encoderArgs' = InitialEncoderArgs
    /\ put' = [key |-> key, value |-> value, status |-> "interrupted"]
    /\ prev' = storage
    /\ settings' = <<>>
    /\ probed' = NoProbe
    /\ UNCHANGED interfaces

\* getMixinSettings() with the given outcomes of the two probes
GetMixinSettingsCall(vso, types) ==
    /\ settings' = GetMixinSettings(storage, interfaces, vso, types)
    /\ probed' = [vso |-> vso, types |-> types]
    /\ UNCHANGED <<interfaces, storage, encoderArgs, calls, put, prev, writes>>

----------------------------------------------------------------------------
(* Specifications *)

\* the capability sets a run starts from: no capability, every capability,
\* and every capability but native stream configuration
CapabilitySets == {{}, Interfaces \ {"VideoCameraConfiguration"}, Interfaces}

\* the probe outcomes a read draws from: a failed probe or a full answer
ProbedStreams == {v \in VideoStreamOptions : v.status = "throws" \/ Len(v.names) = 2}
ProbedTypes == {t \in ObjectTypes : t.status = "throws" \/ Len(t.classes) = 3}

Init ==
    /\ interfaces \in CapabilitySets
    /\ storage = EmptyStorage
    /\ encoderArgs = InitialEncoderArgs
    /\ settings = <<>>
    /\ calls = <<>>
    /\ put = NoPut
    /\ prev = EmptyStorage
    /\ probed = NoProbe
    /\ writes = 0

Write ==
    /\ writes < MaxWrites
    /\ writes' = writes + 1
    /\ \E key \in Keys : \E value \in ValuesFor(key) : PutMixinSetting(key, value)

Interrupt ==
    /\ writes < MaxWrites
    /\ writes' = writes + 1
    /\ \E key \in Keys : \E value \in ValuesFor(key) : \E n \in 1..2 :
          PutMixinSettingInterrupted(key, value, n)

\* getMixinSettings() after a write or after construction; a call repeated
\* with no write in between derives from the same store, so the states it
\* reaches are the ones the first call reaches
Read ==
    /\ settings = <<>>
    /\ \E vso \in ProbedStreams : \E types \in ProbedTypes : GetMixinSettingsCall(vso, types)

Next == Write \/ Interrupt \/ Read

Spec == Init /\ [][Next]_vars

\* writes of the hub streaming mode and of its two flags, any number of them
WriteMode ==
    /\ UNCHANGED writes
    /\ \E key \in ModeKeys : \E value \in ValuesFor(key) : PutMixinSetting(key, value)

InterruptMode ==
    /\ UNCHANGED writes
    /\ \E key \in ModeKeys : \E value \in ValuesFor(key) : \E n \in 1..2 :
          PutMixinSettingInterrupted(key, value, n)

NextMode == WriteMode \/ InterruptMode \/ Read

SpecMode == Init /\ [][NextMode]_vars

\* reads of every capability set under every pair of probe outcomes, over
\* the stores that few writes leave
InitSchema ==
    /\ interfaces \in SUBSET Interfaces
    /\ storage = EmptyStorage
    /\ encoderArgs = InitialEncoderArgs
    /\ settings = <<>>
    /\ calls = <<>>
    /\ put = NoPut
    /\ prev = EmptyStorage
    /\ probed = NoProbe
    /\ writes = 0

WriteSchema ==
    /\ writes < MaxSchemaWrites
    /\ writes' = writes + 1
    /\ \E key \in Keys : \E value \in ValuesFor(key) : PutMixinSetting(key, value)

\* a read of a store that has been read already reaches no further state
ReadSchema ==
    /\ settings = <<>>
    /\ \E vso \in VideoStreamOptions : \E types \in ObjectTypes : GetMixinSettingsCall(vso, types)

NextSchema == WriteSchema \/ ReadSchema

SpecSchema == InitSchema /\ [][NextSchema]_vars

\* a write of a value a caller chose, a read, and the write of the value that
\* read shows back to the same key: the run starts on an empty store, and
\* putMixinSetting('transcodeStreaming', true) may come first so that the
\* two argument settings are shown
EnableTranscodeIdem ==
    /\ put = NoPut
    /\ PutMixinSetting("transcodeStreaming", Bool(TRUE))
    /\ UNCHANGED writes

WriteIdem ==
    /\ writes < MaxSchemaWrites
    /\ writes' = writes + 1
    /\ \E key \in Keys : \E value \in ValuesFor(key) : PutMixinSetting(key, value)

\* the value shown for the key of the last write is written to that key;
\* no write follows it
WriteBackIdem ==
    /\ writes <= MaxSchemaWrites
    /\ put.status = "done" /\ put.key \notin StorageSettingsKeys
    /\ settings # <<>>
    /\ \E i \in 1..Len(settings) :
          /\ settings[i].key = put.key
          /\ PutMixinSetting(put.key, settings[i].value)
    /\ writes' = MaxSchemaWrites + 1

NextIdem == EnableTranscodeIdem \/ WriteIdem \/ WriteBackIdem \/ Read

SpecIdem == Init /\ [][NextIdem]_vars

\* writes of hubStreamingMode with the choices its setting offers, on a device
\* with native stream configuration, any number of them
InitChoices ==
    /\ interfaces \in {c \in SUBSET Interfaces : "VideoCameraConfiguration" \in c}
    /\ storage = EmptyStorage
    /\ encoderArgs = InitialEncoderArgs
    /\ settings = <<>>
    /\ calls = <<>>
    /\ put = NoPut
    /\ prev = EmptyStorage
    /\ probed = NoProbe
    /\ writes = 0

WriteChoices ==
    /\ UNCHANGED writes
    /\ \E i \in 1..Len(HubStreamingModeChoices) :
          PutMixinSetting("hubStreamingMode", Str(HubStreamingModeChoices[i]))

ReadChoices ==
    \E vso \in VideoStreamOptions : \E types \in ObjectTypes : GetMixinSettingsCall(vso, types)

NextChoices == WriteChoices \/ ReadChoices

SpecChoices == InitChoices /\ [][NextChoices]_vars

----------------------------------------------------------------------------
(* Properties *)

\* the last putMixinSetting() was for this key and ran to completion
Completed(key) == put.status = "done" /\ put.key = key

\* both flags of the hub streaming mode are "true" in the store
BothFlags(st) == IsTrue(st, "dynamicBitrate") /\ IsTrue(st, "transcodeStreamingHub")

\* a read has been made since the last write
Derived == settings # <<>>

\* the read made since the last write holds a setting for the key
HasSetting(key) == \E i \in 1..Len(settings) : settings[i].key = key

\* the value of that setting
SettingValue(key) == settings[CHOOSE i \in 1..Len(settings) : settings[i].key = key].value

NativeStreamConfig == "VideoCameraConfiguration" \in interfaces

\* C1: a completed putMixinSetting('hubStreamingMode', 'Transcode') leaves
\* transcodeStreamingHub = "true" and no dynamicBitrate key in the store.
C1_TranscodeSetsFlag ==
    (Completed("hubStreamingMode") /\ put.value = Str("Transcode"))
        => /\ getItem(storage, "transcodeStreamingHub") = Str("true")
           /\ "dynamicBitrate" \notin DOMAIN storage

\* C2: whatever the store held before, a completed
\* putMixinSetting('hubStreamingMode', 'Dynamic Bitrate') leaves
\* dynamicBitrate = "true" and no transcodeStreamingHub key in the store.
C2_DynamicBitrateSetsFlag ==
    (Completed("hubStreamingMode") /\ put.value = Str("Dynamic Bitrate"))
        => /\ getItem(storage, "dynamicBitrate") = Str("true")
           /\ "transcodeStreamingHub" \notin DOMAIN storage

\* 'Dynamic Bitrate' has been written over a store that held both flags
\* "true" and a stored hubStreamingMode
C2_Witness ==
    /\ Completed("hubStreamingMode") /\ put.value = Str("Dynamic Bitrate")
    /\ BothFlags(prev) /\ "hubStreamingMode" \in DOMAIN prev
    /\ getItem(storage, "dynamicBitrate") = Str("true")

\* C3: whatever the store held before, a completed
\* putMixinSetting('hubStreamingMode', 'Disabled') leaves neither a
\* dynamicBitrate key nor a transcodeStreamingHub key in the store.
C3_DisabledClearsFlags ==
    (Completed("hubStreamingMode") /\ put.value = Str("Disabled"))
        => /\ "dynamicBitrate" \notin DOMAIN storage
           /\ "transcodeStreamingHub" \notin DOMAIN storage

\* 'Disabled' has been written over a store that held both flags "true"
C3_Witness ==
    /\ Completed("hubStreamingMode") /\ put.value = Str("Disabled")
    /\ BothFlags(prev)
    /\ DOMAIN storage = {"hubStreamingMode"}

\* C4: after any completed putMixinSetting on hubStreamingMode, whatever the
\* value and the earlier writes, at most one of dynamicBitrate = "true" and
\* transcodeStreamingHub = "true" holds.
C4_AtMostOneFlag == Completed("hubStreamingMode") => ~BothFlags(storage)

\* a value that is not 'Dynamic Bitrate' has been written over a store that
\* held both flags "true", and one flag is "true" afterwards
C4_Witness ==
    /\ Completed("hubStreamingMode") /\ put.value = Str("transcodeStreamingHub")
    /\ BothFlags(prev)
    /\ IsTrue(storage, "transcodeStreamingHub")

\* the mode the flags stand for
InferredMode(st) ==
    IF getItem(st, "dynamicBitrate") = Str("true") THEN Str("Dynamic Bitrate")
    ELSE IF getItem(st, "transcodeStreamingHub") = Str("true") THEN Str("Transcode")
    ELSE Str("Disabled")

\* C9 as stated: with native stream configuration, the hubStreamingMode
\* setting shows the stored hubStreamingMode whenever one is present, and
\* otherwise the mode the flags stand for.
C9_StoredModeShown ==
    (Derived /\ NativeStreamConfig)
        => /\ HasSetting("hubStreamingMode")
           /\ SettingValue("hubStreamingMode") =
                IF "hubStreamingMode" \in DOMAIN storage
                THEN Str(storage["hubStreamingMode"]) ELSE InferredMode(storage)

\* C9 amended: with native stream configuration, the hubStreamingMode setting
\* shows the stored hubStreamingMode when one is present and is not the empty
\* string, and otherwise the mode the flags stand for.
C9_NonEmptyStoredModeShown ==
    (Derived /\ NativeStreamConfig)
        => /\ HasSetting("hubStreamingMode")
           /\ SettingValue("hubStreamingMode") =
                IF "hubStreamingMode" \in DOMAIN storage /\ storage["hubStreamingMode"] # ""
                THEN Str(storage["hubStreamingMode"]) ELSE InferredMode(storage)

\* a read of a store that holds the empty string for hubStreamingMode and
\* transcodeStreamingHub = "true" shows 'Transcode'
C9_Witness ==
    /\ Derived /\ NativeStreamConfig
    /\ getItem(storage, "hubStreamingMode") = Str("")
    /\ IsTrue(storage, "transcodeStreamingHub") /\ ~IsTrue(storage, "dynamicBitrate")
    /\ SettingValue("hubStreamingMode") = Str("Transcode")

\* a write of hubStreamingMode was cut short between two store calls, both
\* flags are "true", and a read has been made since
InterruptedBothFlags ==
    /\ put.status = "interrupted" /\ put.key = "hubStreamingMode"
    /\ BothFlags(storage)
    /\ Derived /\ NativeStreamConfig

\* C10 as stated: after such an interruption the next read shows 'Dynamic Bitrate'.
C10_DynamicBitrateShown ==
    InterruptedBothFlags
        => HasSetting("hubStreamingMode") /\ SettingValue("hubStreamingMode") = Str("Dynamic Bitrate")

\* C10 amended: after such an interruption the next read completes and shows
\* the hubStreamingMode an earlier write left in the store if that is not the
\* empty string, and 'Dynamic Bitrate' otherwise.
C10_StoredModeOrDynamicBitrate ==
    InterruptedBothFlags
        => /\ HasSetting("hubStreamingMode")
           /\ SettingValue("hubStreamingMode") =
                IF Truthy(getItem(storage, "hubStreamingMode"))
                THEN getItem(storage, "hubStreamingMode") ELSE Str("Dynamic Bitrate")

\* the interrupted write left both flags "true" and no hubStreamingMode, and
\* the read shows 'Dynamic Bitrate'
C10_Witness ==
    /\ InterruptedBothFlags
    /\ "hubStreamingMode" \notin DOMAIN storage
    /\ SettingValue("hubStreamingMode") = Str("Dynamic Bitrate")

\* the setting the read made since the last write holds for the key
SettingFor(key) == settings[CHOOSE i \in 1..Len(settings) : settings[i].key = key]

Range(seq) == {seq[i] : i \in 1..Len(seq)}

\* the value is one a caller may validly write for the setting shown for the
\* key: a boolean for a toggle, a choice for a selector, a choice or any
\* string for a combo box, a list of offered classes for the multi-select,
\* a device identifier, a number, or the fixed text of the read-only notice
ValidValue(key, v) ==
    LET d == SettingFor(key) IN
    CASE d.type = "boolean" -> v.kind = "boolean"
      [] key \in ArgsKeys -> v.kind = "string"
      [] key = "objectDetectionContactSensors" ->
            v.kind = "array" /\ Range(v.l) \subseteq Range(d.choices)
      [] key = "objectDetectionContactSensorTimeout" ->
            v.kind = "number" \/ (v.kind = "string" /\ v.s # "")
      [] key = "linkedMotionSensor" -> v.kind = "string" /\ v.s # ""
      [] key = "transcodingNotices" -> v = d.value
      [] OTHER -> v.kind = "string" /\ v.s \in Range(d.choices)

Scalars == {"string", "boolean", "number"}

\* a shown value equals a written one; a boolean or a number and the string
\* it is serialised to in the store count as the same value
SameValue(v, w) ==
    \/ v = w
    \/ v.kind \in Scalars /\ w.kind \in Scalars /\ toString(v) = toString(w)

\* the last write ran to completion on a key of this mixin, a read has been
\* made since, it shows a setting for the key, and the written value is a
\* valid one for that setting
RoundTripCase ==
    /\ put.status = "done" /\ put.key \notin StorageSettingsKeys
    /\ Derived /\ HasSetting(put.key)
    /\ ValidValue(put.key, put.value)

\* the last write carried the name of a cataloged preset for its key
PresetWritten ==
    \/ put.key = "videoDecoderArguments" /\ toString(put.value) \in DOMAIN getH264DecoderArgs
    \/ put.key = "h264EncoderArguments" /\ toString(put.value) \in DOMAIN InitialEncoderArgs

\* C5 as stated: a valid value written for a key that the next read shows,
\* a catalog preset name included, is the value that read shows for the key.
C5_RoundTrip == RoundTripCase => SameValue(SettingValue(put.key), put.value)

\* C5 amended: a valid value written for a key that the next read shows is
\* the value that read shows for the key, unless the value is a catalog
\* preset name written to videoDecoderArguments or h264EncoderArguments.
C5_RoundTripButPresets ==
    (RoundTripCase /\ ~PresetWritten) => SameValue(SettingValue(put.key), put.value)

\* a list of two object classes has been written and is shown by the next read
C5_Witness ==
    /\ RoundTripCase /\ put.key = "objectDetectionContactSensors"
    /\ put.value = List(<<"person", "car">>)
    /\ SettingValue(put.key) = List(<<"person", "car">>)

RawArgumentsWritten ==
    /\ put.status = "done" /\ put.key \in ArgsKeys /\ put.value.kind = "string"
    /\ ~PresetWritten

\* C7: a write of videoDecoderArguments or h264EncoderArguments whose value is
\* no cataloged preset name stores exactly that value, without the
\* deferred-evaluation wrapping.
C7_RawValueStored == RawArgumentsWritten => getItem(storage, put.key) = put.value

\* "-vcodec copy" has been written to h264EncoderArguments and is stored as it is
C7_Witness ==
    /\ RawArgumentsWritten /\ put.key = "h264EncoderArguments"
    /\ put.value = Str("-vcodec copy")
    /\ storage["h264EncoderArguments"] = "-vcodec copy"

\* positions of the calls of the last write that are of the given kind
CallsOf(op) == {i \in 1..Len(calls) : calls[i].op = op}

\* the last write ran to completion and wrote its key to the store
WroteStore == put.status = "done" /\ \E i \in CallsOf("setItem") : calls[i].key = put.key

\* C8: a write that stores its key alerts a reload if and only if the key is
\* detectAudio, linkedMotionSensor or objectDetectionContactSensors, and the
\* alert is raised only after the key has been stored.
C8_ReloadExactlyForReloadKeys ==
    WroteStore
        => /\ (CallsOf("alertReload") # {}) <=>
                (put.key \in {"detectAudio", "linkedMotionSensor", "objectDetectionContactSensors"})
           /\ \A i \in CallsOf("alertReload") :
                \E j \in CallsOf("setItem") : j < i /\ calls[j].key = put.key

\* linkedMotionSensor has been written and the reload alert followed the store call
C8_Witness ==
    /\ WroteStore /\ put.key = "linkedMotionSensor"
    /\ \E i \in CallsOf("alertReload") : calls[i - 1].op = "setItem"

\* the stored objectDetectionContactSensors is absent or is no JSON text
NoContactSensorsJSON ==
    \/ "objectDetectionContactSensors" \notin DOMAIN storage
    \/ JSONParse(storage["objectDetectionContactSensors"]).throws

\* C11: whenever the objectDetectionContactSensors setting is emitted and the
\* stored value is absent or is no valid JSON, the setting's value is the
\* empty list, and every other setting is emitted as it is for a store
\* without that entry.
C11_MalformedYieldsEmpty ==
    (Derived /\ HasSetting("objectDetectionContactSensors") /\ NoContactSensorsJSON)
        => /\ SettingValue("objectDetectionContactSensors") = List(<<>>)
           /\ HasSetting("objectDetectionContactSensorTimeout")
           /\ settings = GetMixinSettings(removeItem(storage, "objectDetectionContactSensors"),
                                          interfaces, probed.vso, probed.types)

\* the store holds a text that is no JSON and the read shows the empty list
C11_Witness ==
    /\ Derived /\ HasSetting("objectDetectionContactSensors")
    /\ getItem(storage, "objectDetectionContactSensors") = Str("undefined")
    /\ SettingValue("objectDetectionContactSensors") = List(<<>>)

\* C12: every read returns a list of settings, whatever the store, the
\* interfaces and the outcome of the probes; a stream probe that throws is
\* read as no channels and an object-type probe that throws as no classes.
C12_ProbeFailuresTolerated ==
    Derived
        => /\ HasSetting("linkedMotionSensor") /\ HasSetting("transcodeStreaming")
           /\ probed.vso.status = "throws"
                => settings = GetMixinSettings(storage, interfaces,
                                               [status |-> "ok", names |-> <<>>], probed.types)
           /\ probed.types.status = "throws"
                => settings = GetMixinSettings(storage, interfaces, probed.vso,
                                               [status |-> "ok", classes |-> <<>>])

\* a read of an object detector in which both probes threw has returned its list
C12_Witness ==
    /\ Derived /\ "ObjectDetector" \in interfaces
    /\ probed.vso.status = "throws" /\ probed.types.status = "throws"
    /\ HasSetting("linkedMotionSensor") /\ ~HasSetting("streamingChannel")
    /\ ~HasSetting("objectDetectionContactSensors")

\* C13: the settings of one read have pairwise distinct keys; in particular
\* hubStreamingMode and transcodeStreamingHub are never both among them.
C13_DistinctKeys ==
    Derived
        => /\ \A i, j \in 1..Len(settings) : i # j => settings[i].key # settings[j].key
           /\ ~(HasSetting("hubStreamingMode") /\ HasSetting("transcodeStreamingHub"))

\* a read with every capability, two channels and object classes shows the
\* selectors, the mode selector and the object detection settings
C13_Witness ==
    /\ Derived /\ interfaces = Interfaces
    /\ HasSetting("recordingChannel") /\ HasSetting("hubStreamingMode")
    /\ HasSetting("objectDetectionContactSensors") /\ HasSetting("statusIndicator")
    /\ Len(settings) >= 14

\* the stream probe of the last read reported more than one channel
MoreThanOneChannel == probed.vso.status = "ok" /\ Len(probed.vso.names) > 1

\* C14: streamingChannel and streamingChannelHub are among the settings if and
\* only if the stream probe reports more than one channel (not with none,
\* one, or a failed probe), and with nothing stored their value is the name
\* of the first channel.
C14_ChannelSelectors ==
    Derived
        => /\ HasSetting("streamingChannel") <=> MoreThanOneChannel
           /\ HasSetting("streamingChannelHub") <=> MoreThanOneChannel
           /\ \A key \in {"streamingChannel", "streamingChannelHub"} :
                (MoreThanOneChannel /\ key \notin DOMAIN storage)
                    => SettingValue(key) = Str(probed.vso.names[1])

\* two channels were reported, nothing is stored, and both selectors show the first
C14_Witness ==
    /\ Derived /\ MoreThanOneChannel /\ storage = EmptyStorage
    /\ SettingValue("streamingChannel") = Str("main")
    /\ SettingValue("streamingChannelHub") = Str("main")

\* C15: linkedMotionSensor is among the settings of every read; with nothing
\* stored its value is the device's own id if the device has the
\* MotionSensor interface and is absent otherwise; with a value stored it is
\* the stored value.
C15_LinkedMotionSensorDefault ==
    Derived
        => /\ HasSetting("linkedMotionSensor")
           /\ SettingValue("linkedMotionSensor") =
                IF "linkedMotionSensor" \in DOMAIN storage
                THEN Str(storage["linkedMotionSensor"])
                ELSE IF "MotionSensor" \in interfaces THEN Str(DeviceId)
                ELSE Null

\* one of the three transcodes is enabled in the store: streaming, remote
\* (the flag, or with native stream configuration the mode shown as
\* 'Transcode'), or recording; recording counts only where a motion sensor
\* makes the recording toggle available
TranscodeEnabled ==
    \/ IsTrue(storage, "transcodeStreaming")
    \/ IsTrue(storage, "transcodeStreamingHub")
    \/ (NativeStreamConfig /\ HubStreamingModeValue(storage) = Str("Transcode"))
    \/ (hasMotionSensor(storage, interfaces) /\ IsTrue(storage, "transcodeRecording"))

\* C16: videoDecoderArguments and h264EncoderArguments are among the settings
\* when and only when one of streaming, remote and recording transcode is
\* enabled in the store, and the two are emitted together or not at all.
C16_ArgumentsWhenTranscoding ==
    Derived
        => /\ HasSetting("videoDecoderArguments") <=> TranscodeEnabled
           /\ HasSetting("h264EncoderArguments") <=> HasSetting("videoDecoderArguments")

WrittenBack == writes > MaxSchemaWrites /\ put.status = "done"

\* C18: when the value v' that a read shows for a key after a valid value was
\* written to it is written to that key again, the store is left as it was
\* (the entry of the key, the two flags and every other entry), and a read
\* that shows the key shows v' again.  RoundTripCase is the state before the
\* second write: a valid value was written, and a read shows its key.
C18_NormalizationIdempotent ==
    [][(RoundTripCase /\ ~WrittenBack /\ WrittenBack')
          => /\ put'.key = put.key /\ put'.value = SettingValue(put.key)
             /\ storage' = storage
             /\ \A vso \in ProbedStreams : \A types \in ProbedTypes :
                   LET again == GetMixinSettings(storage', interfaces', vso, types) IN
                   \A i \in 1..Len(again) :
                       again[i].key = put.key => again[i].value = put'.value]_vars

\* the expansion shown after the preset name VideoToolbox was written to
\* h264EncoderArguments has been written back, the store is as before, and
\* the read after it shows the expansion again
C18_Witness ==
    /\ WrittenBack /\ put.key = "h264EncoderArguments"
    /\ put.value = Str(Backtick \o Join(InitialEncoderArgs["VideoToolbox"] \o extraEncoderArgs, " ")
                       \o Backtick)
    /\ storage = prev
    /\ Derived /\ HasSetting(put.key) /\ SettingValue(put.key) = put.value

\* C19: after writes of hubStreamingMode with the offered choices, starting
\* from an empty store on a device with native stream configuration, the
\* mode shown is 'Dynamic Bitrate' exactly when dynamicBitrate is "true",
\* 'Transcode' exactly when transcodeStreamingHub is "true", and 'Disabled'
\* exactly when neither is.
C19_ShownModeAgreesWithFlags ==
    (Derived /\ HasSetting("hubStreamingMode")) =>
        LET mode == SettingValue("hubStreamingMode") IN
        /\ mode = Str("Dynamic Bitrate") <=> IsTrue(storage, "dynamicBitrate")
        /\ mode = Str("Transcode") <=> IsTrue(storage, "transcodeStreamingHub")
        /\ mode = Str("Disabled") <=> (~IsTrue(storage, "dynamicBitrate")
                                        /\ ~IsTrue(storage, "transcodeStreamingHub"))

\* C20: a completed write of a key other than hubStreamingMode leaves every
\* entry of the store but the one of that key as it was; a direct write of
\* transcodeStreamingHub or dynamicBitrate neither sets nor removes the other flag.
C20_OnlyOwnKeyChanges ==
    (put.status = "done" /\ put.key # "hubStreamingMode")
        => \A k \in (DOMAIN storage \cup DOMAIN prev) \ {put.key} :
              getItem(storage, k) = getItem(prev, k)

\* transcodeStreamingHub has been written while dynamicBitrate was "true",
\* and dynamicBitrate is still "true"
C20_Witness ==
    /\ Completed("transcodeStreamingHub") /\ put.value = Bool(TRUE)
    /\ IsTrue(prev, "dynamicBitrate") /\ ~IsTrue(prev, "transcodeStreamingHub")
    /\ IsTrue(storage, "dynamicBitrate") /\ IsTrue(storage, "transcodeStreamingHub")

====
